---- MODULE Spec2Model ----
(***************************************************************************)
(* A model of scripts/llm_bridge.py: the bridge reads one JSON request     *)
(* from standard input, validates the goal, normalises history and         *)
(* knowledge, and writes either {"thought", "reply"} or {"error"}.         *)
(*                                                                         *)
(* Text is a sequence of one-character strings.  The fixed fragments of    *)
(* the script's templates (which are Chinese in the source) are single     *)
(* multi-character tokens, so a fragment is never confused with text that  *)
(* came from the request.                                                  *)
(*                                                                         *)
(* A JSON value is a pair <<tag, value>>.  An integer n is                  *)
(* held as [d, s] with n = d * 86400 + s and 0 <= s < 86400, so that       *)
(* epoch values outside the range of datetime stay representable.          *)
(***************************************************************************)
EXTENDS Integers, Sequences, FiniteSets, TLC

VARIABLES
    pc,         \* per invocation: position in main()
    stdin,      \* per invocation: what json.load(sys.stdin) finds
    payload,    \* per invocation: the decoded request (main, line 90)
    goal,       \* per invocation: local of main (line 95)
    action,     \* per invocation: local of main (line 96)
    address,    \* per invocation: local of main (line 97)
    history,    \* per invocation: normalized_history (lines 103-110)
    knowledge,  \* per invocation: normalized_knowledge (lines 112-119)
    now,        \* per invocation: the clock value build_reply read (line 56)
    out,        \* per invocation: what the process wrote / how it ended
    clock       \* the wall clock, seconds after the start of the base day

vars == <<pc, stdin, payload, goal, action, address, history, knowledge, now, out, clock>>

-----------------------------------------------------------------------------
(* Bounds of the model                                                     *)

MaxHist == 4        \* longest history / knowledge list built from the item pool
MaxText == 82       \* longest reply / observations / content text
MaxTicks == 2       \* how far the wall clock advances
BaseDay == 20000    \* the day (since the epoch) on which the invocations run

-----------------------------------------------------------------------------
(* Program constants                                                       *)

HistoryLimit == 3       \* if idx >= 3: break
KnowledgeLimit == 3
SummaryMax == 60        \* if len(summary) > 60
SummaryKeep == 57       \* summary[:57]
ContentMax == 80        \* if len(content) > 80
ContentKeep == 77       \* content[:77]
SecondsPerDay == 86400
MinDay == -719162       \* 0001-01-01, the first day datetime can hold
MaxDay == 2932896       \* 9999-12-31, the last day datetime can hold

-----------------------------------------------------------------------------
(* Text                                                                    *)

Min(a, b) == IF a < b THEN a ELSE b

DigitChars == <<"0", "1", "2", "3", "4", "5", "6", "7", "8", "9">>

RECURSIVE Decimal(_)
\* str(n) for an integer n
Decimal(n) ==
    IF n < 0 THEN <<"-">> \o Decimal(0 - n)
    ELSE IF n < 10 THEN <<DigitChars[n + 1]>>
    ELSE Decimal(n \div 10) \o <<DigitChars[(n % 10) + 1]>>

\* %02d and %04d of strftime
Pad2(n) == <<DigitChars[(n \div 10) + 1], DigitChars[(n % 10) + 1]>>
Pad4(n) == Pad2(n \div 100) \o Pad2(n % 100)

IsSpace(c) == c \in {" ", "\n", "\t"}

RECURSIVE LStrip(_)
LStrip(s) == IF s # <<>> /\ IsSpace(Head(s)) THEN LStrip(Tail(s)) ELSE s

RECURSIVE RStrip(_)
RStrip(s) ==
    IF s # <<>> /\ IsSpace(s[Len(s)]) THEN RStrip(SubSeq(s, 1, Len(s) - 1)) ELSE s

\* variant: the text is taken as given, untrimmed
Strip_NoTrim(s) == s

\* str.strip()
Strip(s) == RStrip(LStrip(s))

\* s[:n]
Prefix(s, n) == SubSeq(s, 1, Min(n, Len(s)))

RECURSIVE JoinLines(_)
\* "\n".join(lines)
JoinLines(lines) ==
    IF lines = <<>> THEN <<>>
    ELSE IF Len(lines) = 1 THEN lines[1]
    ELSE lines[1] \o <<"\n">> \o JoinLines(Tail(lines))

-----------------------------------------------------------------------------
(* JSON values as json.load builds them                                    *)

JStr(s) == <<"str", s>>
JInt(d, s) == <<"int", [d |-> d, s |-> s]>>
\* a float: cls is "fin", "nan" or "inf"; a finite one is
\* sign * (d * 86400 + s + tenths / 10)
JFloat(cls, sign, d, s, tenths) ==
    <<"float", [cls |-> cls, sign |-> sign, d |-> d, s |-> s, tenths |-> tenths]>>
JBool(b) == <<"bool", b>>
JNull == <<"null">>
JList(items) == <<"list", items>>
JDict(fields) == <<"dict", fields>>

\* the tag and the value of a JSON value
Tag(x) == x[1]
Val(x) == x[2]

\* the order in which the keys of an object are written, for str(dict)
KeyOrder == <<"goal", "reply", "observations", "created_at", "title", "content", "a">>

\* the integer d * 86400 + s, for the small integers that are ever printed
IntValue(n) == n.d * SecondsPerDay + n.s

\* -n in the [d, s] form
Negate(n) ==
    IF n.s = 0 THEN [d |-> 0 - n.d, s |-> 0]
    ELSE [d |-> 0 - n.d - 1, s |-> SecondsPerDay - n.s]

RECURSIVE Str(_), Repr(_), ReprItems(_), ReprFields(_, _, _)
\* repr(x): as str(x), with a text in quotes
Repr(x) == IF Tag(x) = "str" THEN <<"'">> \o Val(x) \o <<"'">> ELSE Str(x)

ReprItems(items) ==
    IF items = <<>> THEN <<>>
    ELSE IF Len(items) = 1 THEN Repr(items[1])
    ELSE Repr(items[1]) \o <<",", " ">> \o ReprItems(Tail(items))

ReprFields(fields, keys, first) ==
    IF keys = <<>> THEN <<>>
    ELSE IF Head(keys) \in DOMAIN fields
         THEN (IF first THEN <<>> ELSE <<",", " ">>)
              \o <<"'", Head(keys), "'", ":", " ">> \o Repr(fields[Head(keys)])
              \o ReprFields(fields, Tail(keys), FALSE)
         ELSE ReprFields(fields, Tail(keys), first)

\* str(x) of Python for a decoded JSON value
Str(x) ==
    CASE Tag(x) = "str" -> Val(x)
      [] Tag(x) = "null" -> <<"N", "o", "n", "e">>
      [] Tag(x) = "bool" -> IF Val(x) THEN <<"T", "r", "u", "e">> ELSE <<"F", "a", "l", "s", "e">>
      [] Tag(x) = "int" -> Decimal(IntValue(Val(x)))
      [] Tag(x) = "float" ->
            IF Val(x).cls = "nan" THEN <<"n", "a", "n">>
            ELSE IF Val(x).cls = "inf" THEN (IF Val(x).sign < 0 THEN <<"-">> ELSE <<>>) \o <<"i", "n", "f">>
            ELSE (IF Val(x).sign < 0 THEN <<"-">> ELSE <<>>)
                 \o Decimal(IntValue(Val(x))) \o <<".">> \o <<DigitChars[Val(x).tenths + 1]>>
      [] Tag(x) = "list" -> <<"[">> \o ReprItems(Val(x)) \o <<"]">>
      [] Tag(x) = "dict" -> <<"{">> \o ReprFields(Val(x), KeyOrder, TRUE) \o <<"}">>

\* bool(x): the truth value Python gives a decoded JSON value
Truthy(x) ==
    CASE Tag(x) = "str" -> Val(x) # <<>>
      [] Tag(x) = "null" -> FALSE
      [] Tag(x) = "bool" -> Val(x)
      [] Tag(x) = "int" -> Val(x) # [d |-> 0, s |-> 0]
      [] Tag(x) = "float" -> ~(Val(x).cls = "fin" /\ Val(x).d = 0 /\ Val(x).s = 0 /\ Val(x).tenths = 0)
      [] Tag(x) = "list" -> Val(x) # <<>>
      [] Tag(x) = "dict" -> DOMAIN Val(x) # {}

\* dict.get(key, default)
Get(item, key, default) == IF key \in DOMAIN Val(item) THEN Val(item)[key] ELSE default

\* isinstance(x, list), isinstance(x, dict), isinstance(x, (int, float));
\* bool is a subclass of int
IsList(x) == Tag(x) = "list"
IsDict(x) == Tag(x) = "dict"
IsNumber(x) == Tag(x) \in {"int", "float", "bool"}

-----------------------------------------------------------------------------
(* datetime.utcfromtimestamp(int(x)).strftime("%Y-%m-%d %H:%M:%S UTC")      *)

\* int(x) for a number x, in the [d, s] form; int() truncates a float
\* towards zero, and True is 1
IntOf(x) ==
    CASE Tag(x) = "bool" -> [d |-> 0, s |-> IF Val(x) THEN 1 ELSE 0]
      [] Tag(x) = "int" -> Val(x)
      [] Tag(x) = "float" ->
            IF Val(x).sign < 0 THEN Negate([d |-> Val(x).d, s |-> Val(x).s])
            ELSE [d |-> Val(x).d, s |-> Val(x).s]

\* int(nan) and int(inf) raise; utcfromtimestamp raises outside years 1..9999
TimestampRaises(x) ==
    \/ Tag(x) = "float" /\ Val(x).cls # "fin"
    \/ IntOf(x).d < MinDay
    \/ IntOf(x).d > MaxDay

\* the proleptic Gregorian date of day z since 1970-01-01
CivilFromDays(z) ==
    LET zz == z + 719468
        era == zz \div 146097
        doe == zz - era * 146097
        yoe == (doe - doe \div 1460 + doe \div 36524 - doe \div 146096) \div 365
        doy == doe - (365 * yoe + yoe \div 4 - yoe \div 100)
        mp == (5 * doy + 2) \div 153
        dd == doy - (153 * mp + 2) \div 5 + 1
        mm == IF mp < 10 THEN mp + 3 ELSE mp - 9
        yy == yoe + era * 400 + (IF mm <= 2 THEN 1 ELSE 0)
    IN  [year |-> yy, month |-> mm, day |-> dd]

\* strftime("%Y-%m-%d %H:%M:%S UTC") of the instant n = [d, s]
FormatUTC(n) ==
    LET c == CivilFromDays(n.d)
    IN  Pad4(c.year) \o <<"-">> \o Pad2(c.month) \o <<"-">> \o Pad2(c.day) \o <<" ">>
        \o Pad2(n.s \div 3600) \o <<":">> \o Pad2((n.s % 3600) \div 60) \o <<":">>
        \o Pad2(n.s % 60) \o <<" ", "U", "T", "C">>

-----------------------------------------------------------------------------
(* The fixed fragments of the templates (translated)                       *)

LitHistoryHeader == <<"Historical reference tasks:">>      \* "历史参考任务："
LitKnowledgeHeader == <<"Knowledge base references:">>     \* "知识库参考："
LitUnknownGoal == <<"unknown goal">>                       \* "未知目标"
LitUnknownTime == <<"unknown time">>                       \* "未知时间"
LitNoSummary == <<"no summary">>                           \* '无摘要'
LitKnowledgePoint == <<"knowledge point">>                 \* "知识点"
LitNoDetail == <<"no detail yet">>                         \* '暂无详细内容'
LitUnspecified == <<"unspecified">>                        \* '未指定'
LitSupplyAction == <<"supply the chain action">>           \* '补充链上操作'
LitToBeDetermined == <<"to be determined">>                \* '待定'
LitRecentTasks == <<"recent tasks">>                       \* "近期任务"
LitKnowledgeAdvice == <<"knowledge base advice">>          \* "知识库建议"
Ellipsis == <<".", ".", ".">>                              \* "..."
LitEntryOpen == <<"- [">>
LitEntryClose == <<"] ">>
LitEntryGoal == <<" goal: ">>                              \* " 目标: "
LitEntryResult == <<" | result: ">>                        \* " | 结果: "
LitEntryColon == <<": ">>
LitCurrentGoal == <<"Current goal: ">>                     \* "当前目标: "
LitExpectedAction == <<"Expected chain action: ">>         \* "预期链上操作: "
LitInvolvedAddress == <<"Involved address: ">>             \* "涉及地址: "
LitTimestamp == <<"Timestamp: ">>                          \* "时间戳: "
LitReplyOpen == <<"I have understood your goal [">>        \* "我已经理解你的目标『"
LitReplyNext == <<"]. Next you can follow [">>             \* "』。下一步可以按照『"
LitReplyKeep == <<"] on chain, and keep address ">>        \* "』在链上执行，并保持地址 "
LitReplySafe == <<" safe.">>                               \* " 的安全。"
LitHistoryOpen == <<" I also referred to the historical task [">>
LitHistoryClose == <<"] to keep the strategy consistent.">>
LitHistoryGeneric == <<" I also drew on recent task experience.">>
LitKnowledgeOpen == <<" I additionally consulted [">>
LitKnowledgeClose == <<"] in the knowledge base.">>
LitKnowledgeGeneric == <<" I also consulted relevant knowledge-base entries.">>

-----------------------------------------------------------------------------
(* _format_history_lines, _format_knowledge_lines, build_reply             *)

\* ts of one history item (lines 20-24), when the conversion does not raise
HistoryTimestamp(item) ==
    LET created_at == Get(item, "created_at", JNull)
    IN  IF IsNumber(created_at) THEN FormatUTC(IntOf(created_at))
        ELSE Str(IF Truthy(created_at) THEN created_at ELSE JStr(LitUnknownTime))

\* reply or observations (line 26)
HistorySummarySource(item) ==
    LET reply == Str(Get(item, "reply", JStr(<<>>)))
        observations == Str(Get(item, "observations", JStr(<<>>)))
    IN  IF reply # <<>> THEN reply ELSE observations

\* variant: the limit itself is cut too
TruncateSummary_Inclusive(summary) ==
    IF Len(summary) >= SummaryMax THEN Prefix(summary, SummaryKeep) \o Ellipsis ELSE summary

\* lines 27-28
TruncateSummary(summary) ==
    IF Len(summary) > SummaryMax THEN Prefix(summary, SummaryKeep) \o Ellipsis ELSE summary

\* line 29
HistoryLine(idx, item) ==
    LET summary == TruncateSummary(HistorySummarySource(item))
    IN  LitEntryOpen \o Decimal(idx) \o LitEntryClose \o HistoryTimestamp(item)
        \o LitEntryGoal \o Str(Get(item, "goal", JStr(LitUnknownGoal)))
        \o LitEntryResult \o (IF summary # <<>> THEN summary ELSE LitNoSummary)

RECURSIVE HistoryLoop_NoBreak(_, _)
\* variant: the loop without its break
HistoryLoop_NoBreak(items, idx) ==
    IF idx > Len(items) THEN <<>>
    ELSE <<HistoryLine(idx, items[idx])>> \o HistoryLoop_NoBreak(items, idx + 1)

RECURSIVE HistoryLoop(_, _)
\* the loop of lines 16-31, from index idx on
HistoryLoop(items, idx) ==
    IF idx > Len(items) THEN <<>>
    ELSE <<HistoryLine(idx, items[idx])>>
         \o (IF idx >= HistoryLimit THEN <<>> ELSE HistoryLoop(items, idx + 1))

format_history_lines(items) == <<LitHistoryHeader>> \o HistoryLoop(items, 1)

\* whether _format_history_lines ends in an exception: an item the loop
\* reaches has a created_at that line 22 cannot convert
FormatHistoryRaises(items) ==
    \E k \in 1..Min(HistoryLimit, Len(items)) :
        LET created_at == Get(items[k], "created_at", JNull)
        IN  IsNumber(created_at) /\ TimestampRaises(created_at)

\* lines 40-41
TruncateContent(content) ==
    IF Len(content) > ContentMax THEN Prefix(content, ContentKeep) \o Ellipsis ELSE content

\* lines 38-42
KnowledgeLine(idx, item) ==
    LET t0 == Str(Get(item, "title", JStr(LitKnowledgePoint)))
        title == IF t0 # <<>> THEN t0 ELSE LitKnowledgePoint
        content == TruncateContent(Str(Get(item, "content", JStr(<<>>))))
    IN  LitEntryOpen \o Decimal(idx) \o LitEntryClose \o title \o LitEntryColon
        \o (IF content # <<>> THEN content ELSE LitNoDetail)

RECURSIVE KnowledgeLoop(_, _)
\* the loop of lines 37-44, from index idx on
KnowledgeLoop(items, idx) ==
    IF idx > Len(items) THEN <<>>
    ELSE <<KnowledgeLine(idx, items[idx])>>
         \o (IF idx >= KnowledgeLimit THEN <<>> ELSE KnowledgeLoop(items, idx + 1))

format_knowledge_lines(items) == <<LitKnowledgeHeader>> \o KnowledgeLoop(items, 1)

\* lines 57-66: the lines of the thought, before they are joined
ThoughtLines(g, a, addr, hist, know, t) ==
    << LitCurrentGoal \o g,
       LitExpectedAction \o (IF a # <<>> THEN a ELSE LitUnspecified),
       LitInvolvedAddress \o (IF addr # <<>> THEN addr ELSE LitUnspecified),
       LitTimestamp \o FormatUTC(t) >>
    \o (IF hist # <<>> THEN format_history_lines(hist) ELSE <<>>)
    \o (IF know # <<>> THEN format_knowledge_lines(know) ELSE <<>>)

\* variant: the clause names the last record instead of the first
HistoryClause_Last(hist) ==
    IF hist = <<>> THEN <<>>
    ELSE LET latest_goal == Strip(Str(Get(hist[Len(hist)], "goal", JStr(LitRecentTasks))))
         IN  IF latest_goal # <<>>
             THEN LitHistoryOpen \o latest_goal \o LitHistoryClose
             ELSE LitHistoryGeneric

\* lines 73-78: the history clause of the reply
HistoryClause(hist) ==
    IF hist = <<>> THEN <<>>
    ELSE LET latest_goal == Strip(Str(Get(hist[1], "goal", JStr(LitRecentTasks))))
         IN  IF latest_goal # <<>>
             THEN LitHistoryOpen \o latest_goal \o LitHistoryClose
             ELSE LitHistoryGeneric

\* lines 79-84: the knowledge clause of the reply
KnowledgeClause(know) ==
    IF know = <<>> THEN <<>>
    ELSE LET key_title == Strip(Str(Get(know[1], "title", JStr(LitKnowledgeAdvice))))
         IN  IF key_title # <<>>
             THEN LitKnowledgeOpen \o key_title \o LitKnowledgeClose
             ELSE LitKnowledgeGeneric

\* lines 69-72: the base sentences of the reply
BaseReply(g, a, addr) ==
    LitReplyOpen \o g \o LitReplyNext \o (IF a # <<>> THEN a ELSE LitSupplyAction)
    \o LitReplyKeep \o (IF addr # <<>> THEN addr ELSE LitToBeDetermined) \o LitReplySafe

\* build_reply, with the clock value t that line 56 reads
build_reply(g, a, addr, hist, know, t) ==
    [thought |-> JoinLines(ThoughtLines(g, a, addr, hist, know, t)),
     reply |-> BaseReply(g, a, addr) \o HistoryClause(hist) \o KnowledgeClause(know)]

-----------------------------------------------------------------------------
(* The requests the invocations are run on                                 *)

\* marks a key the request does not carry
Absent == <<"absent">>

NoFields == [k \in {} |-> JNull]
Opt(key, val) == IF val = Absent THEN NoFields ELSE key :> val

\* a text of n characters whose prefixes are all different
Text(n) == [k \in 1..n |-> DigitChars[(k % 10) + 1]]

TextLens ==
    {0, 1, SummaryKeep, SummaryMax - 1, SummaryMax, SummaryMax + 1,
     ContentKeep, ContentMax, ContentMax + 1, MaxText}

HistoryRecord(g, r, o, c) ==
    JDict(Opt("goal", g) @@ Opt("reply", r) @@ Opt("observations", o) @@ Opt("created_at", c))

KnowledgeEntry(ti, co) == JDict(Opt("title", ti) @@ Opt("content", co))

\* values that are not objects
NonRecords == {JInt(0, 1), JStr(<<"x">>), JNull, JList(<<>>)}

CreatedAts ==
    { Absent, JNull, JInt(0, 0), JInt(0, 1), JInt(19675, 3661), JInt(0 - 1, 86399),
      JInt(MinDay, 0), JInt(MinDay - 1, 86399), JInt(MaxDay, 86399), JInt(MaxDay + 1, 0),
      JInt(1000000000, 0),
      JFloat("fin", 1, 0, 1, 5), JFloat("fin", 0 - 1, 0, 1, 5), JFloat("fin", 1, 0, 0, 0),
      JFloat("fin", 1, 1000000000, 0, 0), JFloat("nan", 1, 0, 0, 0), JFloat("inf", 1, 0, 0, 0),
      JStr(<<"2", "0", "2", "4">>), JStr(<<>>), JStr(<<" ">>),
      JBool(TRUE), JBool(FALSE), JList(<<>>), JList(<<JInt(0, 1)>>),
      JDict(NoFields), JDict("a" :> JInt(0, 1)) }

GoalTexts ==
    { Absent, JStr(<<>>), JStr(<<" ", " ">>), JStr(<<"\n", "\t">>), JStr(<<"g">>),
      JStr(<<" ", "g", " ">>), JStr(<<"a", "\n", "b">>), JNull, JInt(0, 7) }

hA == HistoryRecord(JStr(<<"A">>), JStr(<<"r", "a">>), Absent, JInt(0, 0))
hB == HistoryRecord(JStr(<<"B">>), Absent, JStr(<<"o", "b">>), JStr(<<"2", "0", "2", "4">>))
kA == KnowledgeEntry(JStr(<<"T", "a">>), JStr(<<"c", "a">>))
kB == KnowledgeEntry(JStr(<<"T", "b">>), Absent)

ListsOver(pool, n) == UNION {[1..m -> pool] : m \in 0..n}

HistoryVariants ==
    {HistoryRecord(JStr(<<"A">>), JStr(<<"r">>), Absent, c) : c \in CreatedAts}
    \cup {HistoryRecord(Absent, JStr(Text(n)), JStr(<<"o">>), Absent) : n \in TextLens}
    \cup {HistoryRecord(Absent, Absent, JStr(Text(n)), Absent) : n \in TextLens}
    \cup {HistoryRecord(g, Absent, Absent, Absent) : g \in GoalTexts}

HistoryInputs ==
    {Absent, JNull, JStr(<<"n", "o">>), JInt(0, 3), JDict(NoFields), JDict("goal" :> JStr(<<"A">>))}
    \cup {JList(l) : l \in ListsOver({JInt(0, 1), hA, hB}, MaxHist)}
    \cup {JList(<<v>>) : v \in HistoryVariants}
    \cup {JList(<<hA, v>>) : v \in HistoryVariants}
    \cup {JList(<<v, hB>>) : v \in HistoryVariants}
    \cup {JList(<<hA, hB, hA, HistoryRecord(Absent, Absent, Absent, JFloat("nan", 1, 0, 0, 0))>>)}

KnowledgeVariants ==
    {KnowledgeEntry(ti, JStr(<<"c">>)) : ti \in GoalTexts}
    \cup {KnowledgeEntry(JStr(<<"T">>), JStr(Text(n))) : n \in TextLens}

KnowledgeInputs ==
    {Absent, JNull, JStr(<<"n", "o">>), JInt(0, 3), JDict(NoFields)}
    \cup {JList(l) : l \in ListsOver({JStr(<<"x">>), kA, kB}, MaxHist)}
    \cup {JList(<<v>>) : v \in KnowledgeVariants}

\* history / knowledge values that are malformed, empty or short
SmallOptional(rec) ==
    {Absent, JStr(<<"n", "o">>), JList(<<>>), JList(<<JInt(0, 1), JStr(<<"x">>)>>), JList(<<rec>>)}

Request(g, a, addr, h, k) ==
    JDict(Opt("goal", g) @@ Opt("chain_action", a) @@ Opt("address", addr)
          @@ Opt("history", h) @@ Opt("knowledge", k))

ActionAddress ==
    { <<Absent, Absent>>, <<JStr(<<"e", "t", "h">>), JStr(<<"0", "x">>)>>,
      <<JStr(<<" ">>), JNull>> }

Requests ==
    {Request(g, aa[1], aa[2], h, k) :
        g \in GoalTexts, aa \in ActionAddress,
        h \in SmallOptional(hA), k \in SmallOptional(kA)}
    \cup {Request(JStr(<<"g">>), Absent, Absent, h, Absent) : h \in HistoryInputs}
    \cup {Request(JStr(<<"g">>), Absent, Absent, Absent, k) : k \in KnowledgeInputs}

\* what json.load finds on standard input: text that is not JSON, or a value
NotJson == [ok |-> FALSE]
Parsed(value) == [ok |-> TRUE, value |-> value]

Inputs ==
    {NotJson} \cup {Parsed(v) : v \in NonRecords \cup {JBool(TRUE), JList(<<hA>>)}}
    \cup {Parsed(r) : r \in Requests}

\* history / knowledge values of the runs with two invocations
PairOptional(rec) ==
    {Absent, JStr(<<"n", "o">>), JDict(NoFields), JList(<<>>),
     JList(<<JInt(0, 1), JStr(<<"x">>)>>), JList(<<rec>>)}

\* the requests of the runs with two invocations
PairInputs ==
    {NotJson, Parsed(JList(<<>>)), Parsed(Request(JStr(<<" ">>), Absent, Absent, Absent, Absent))}
    \cup {Parsed(Request(JStr(<<"g">>), Absent, Absent, h, k)) :
            h \in PairOptional(hA), k \in PairOptional(kA)}

-----------------------------------------------------------------------------
(* main()                                                                  *)

Invocations == DOMAIN pc

NoOutput == [kind |-> "none"]
Result(r) == [kind |-> "result", thought |-> r.thought, reply |-> r.reply]
ErrorResponse(msg) == [kind |-> "error", error |-> msg]
Uncaught(exc) == [kind |-> "uncaught", exc |-> exc]

\* line 92: f"输入不是有效的 JSON: {exc}"
MalformedInputMessage == <<"Input is not valid JSON: ", "Expecting value">>
\* line 100: "goal 字段不能为空"
MissingGoalMessage == <<"goal field must not be empty">>

RECURSIVE SelectDicts(_)
\* lines 107-110 and 116-119: keep the items that are dicts
SelectDicts(items) ==
    IF items = <<>> THEN <<>>
    ELSE (IF IsDict(Head(items)) THEN <<Head(items)>> ELSE <<>>) \o SelectDicts(Tail(items))

\* variant: a value that is no list is taken as a list of one item
Normalize_Wrap(value) == SelectDicts(IF IsList(value) THEN Val(value) ELSE <<value>>)

\* lines 103-110 and 112-119
Normalize(value) == SelectDicts(IF IsList(value) THEN Val(value) ELSE <<>>)

\* variant: the normalised history is kept in one place for all invocations
HistoryArg_Shared(i) == history[1]

\* the normalised lists invocation i hands to build_reply (line 121)
HistoryArg(i) == history[i]
KnowledgeArg(i) == knowledge[i]

Finish(i, o) ==
    /\ pc' = [pc EXCEPT ![i] = "done"]
    /\ out' = [out EXCEPT ![i] = o]

\* lines 89-93
Load(i) ==
    /\ pc[i] = "start"
    /\ IF stdin[i].ok
       THEN /\ payload' = [payload EXCEPT ![i] = stdin[i].value]
            /\ pc' = [pc EXCEPT ![i] = "loaded"]
            /\ out' = out
       ELSE /\ Finish(i, ErrorResponse(MalformedInputMessage))
            /\ payload' = payload
    /\ UNCHANGED <<stdin, goal, action, address, history, knowledge, now, clock>>

\* lines 95-97: payload.get raises AttributeError when payload is no dict
ReadFields(i) ==
    /\ pc[i] = "loaded"
    /\ IF IsDict(payload[i])
       THEN /\ goal' = [goal EXCEPT ![i] = Strip(Str(Get(payload[i], "goal", JStr(<<>>))))]
            /\ action' = [action EXCEPT ![i] = Strip(Str(Get(payload[i], "chain_action", JStr(<<>>))))]
            /\ address' = [address EXCEPT ![i] = Strip(Str(Get(payload[i], "address", JStr(<<>>))))]
            /\ pc' = [pc EXCEPT ![i] = "fields"]
            /\ out' = out
       ELSE /\ Finish(i, Uncaught("AttributeError"))
            /\ UNCHANGED <<goal, action, address>>
    /\ UNCHANGED <<stdin, payload, history, knowledge, now, clock>>

\* lines 99-101
CheckGoal(i) ==
    /\ pc[i] = "fields"
    /\ IF goal[i] = <<>>
       THEN Finish(i, ErrorResponse(MissingGoalMessage))
       ELSE pc' = [pc EXCEPT ![i] = "checked"] /\ out' = out
    /\ UNCHANGED <<stdin, payload, goal, action, address, history, knowledge, now, clock>>

\* lines 103-110
NormalizeHistory(i) ==
    /\ pc[i] = "checked"
    /\ history' = [history EXCEPT ![i] = Normalize(Get(payload[i], "history", JNull))]
    /\ pc' = [pc EXCEPT ![i] = "history"]
    /\ UNCHANGED <<stdin, payload, goal, action, address, knowledge, now, out, clock>>

\* lines 112-119
NormalizeKnowledge(i) ==
    /\ pc[i] = "history"
    /\ knowledge' = [knowledge EXCEPT ![i] = Normalize(Get(payload[i], "knowledge", JNull))]
    /\ pc' = [pc EXCEPT ![i] = "knowledge"]
    /\ UNCHANGED <<stdin, payload, goal, action, address, history, now, out, clock>>

\* lines 121-122: build_reply reads the clock, and an exception of
\* _format_history_lines ends the process with nothing written
Build(i) ==
    /\ pc[i] = "knowledge"
    /\ now' = [now EXCEPT ![i] = [d |-> BaseDay, s |-> clock]]
    /\ IF FormatHistoryRaises(HistoryArg(i))
       THEN Finish(i, Uncaught("ValueError"))
       ELSE Finish(i, Result(build_reply(goal[i], action[i], address[i],
                                         HistoryArg(i), KnowledgeArg(i), now'[i])))
    /\ UNCHANGED <<stdin, payload, goal, action, address, history, knowledge, clock>>

\* time passes
Tick ==
    /\ clock < MaxTicks
    /\ clock' = clock + 1
    /\ UNCHANGED <<pc, stdin, payload, goal, action, address, history, knowledge, now, out>>

InitOn(ids, inputs) ==
    /\ stdin \in [ids -> inputs]
    /\ pc = [i \in ids |-> "start"]
    /\ payload = [i \in ids |-> JNull]
    /\ goal = [i \in ids |-> <<>>]
    /\ action = [i \in ids |-> <<>>]
    /\ address = [i \in ids |-> <<>>]
    /\ history = [i \in ids |-> <<>>]
    /\ knowledge = [i \in ids |-> <<>>]
    /\ now = [i \in ids |-> [d |-> 0, s |-> 0]]
    /\ out = [i \in ids |-> NoOutput]
    /\ clock = 0

\* one invocation, on any of the requests
Init == InitOn({1}, Inputs)

\* two invocations that run interleaved
InitPair == InitOn({1, 2}, PairInputs)

Next ==
    \/ \E i \in Invocations : Load(i)
    \/ \E i \in Invocations : ReadFields(i)
    \/ \E i \in Invocations : CheckGoal(i)
    \/ \E i \in Invocations : NormalizeHistory(i)
    \/ \E i \in Invocations : NormalizeKnowledge(i)
    \/ \E i \in Invocations : Build(i)
    \/ Tick

Spec == Init /\ [][Next]_vars

SpecPair == InitPair /\ [][Next]_vars

-----------------------------------------------------------------------------
(* Reading the output back                                                 *)

Tok(lit) == lit[1]
Done(i) == pc[i] = "done"
IsResult(i) == Done(i) /\ out[i].kind = "result"
IsRequest(i) == stdin[i].ok /\ IsDict(stdin[i].value)

SetMin(S) == CHOOSE x \in S : \A y \in S : x <= y
SetMax(S) == CHOOSE x \in S : \A y \in S : x >= y
Positions(text, tok) == {p \in 1..Len(text) : text[p] = tok}
Nth(S, k) == CHOOSE p \in S : Cardinality({q \in S : q < p}) = k - 1
Contains(text, part) ==
    \E p \in 0..(Len(text) - Len(part)) : SubSeq(text, p + 1, p + Len(part)) = part
EndsWith(text, part) ==
    Len(text) >= Len(part) /\ SubSeq(text, Len(text) - Len(part) + 1, Len(text)) = part
AllSpace(s) == \A k \in 1..Len(s) : s[k] \in {" ", "\n", "\t"}
LineCount(text) == Cardinality(Positions(text, "\n")) + 1

\* the text after position p, up to the end of that line
RestOfLine(text, p) ==
    LET stops == {q \in (p + 1)..Len(text) : text[q] = "\n"}
    IN  SubSeq(text, p + 1, IF stops = {} THEN Len(text) ELSE SetMin(stops) - 1)

\* the text between position p and the next occurrence of tok
UpTo(text, p, tok) == SubSeq(text, p + 1, SetMin({q \in Positions(text, tok) : q > p}) - 1)

\* the text between the last occurrence of tok before position p and p
BackTo(text, p, tok) == SubSeq(text, SetMax({q \in Positions(text, tok) : q < p}) + 1, p - 1)

\* the entry lines of the history section are those that carry the goal
\* fragment, the entry lines of the knowledge section those with the colon
HistoryEntries(i) == Positions(out[i].thought, Tok(LitEntryGoal))
KnowledgeEntries(i) == Positions(out[i].thought, Tok(LitEntryColon))
EntryIndex(i, p) ==
    BackTo(out[i].thought, SetMax(Positions(out[i].thought, Tok(LitEntryClose)) \cap 1..p),
           Tok(LitEntryOpen))
RenderedTimestamp(i, p) == BackTo(out[i].thought, p, Tok(LitEntryClose))
RenderedGoal(i, p) == UpTo(out[i].thought, p, Tok(LitEntryResult))
RenderedSummary(i, p) ==
    RestOfLine(out[i].thought, SetMin({q \in Positions(out[i].thought, Tok(LitEntryResult)) : q > p}))
RenderedTitle(i, p) == BackTo(out[i].thought, p, Tok(LitEntryClose))
RenderedContent(i, p) == RestOfLine(out[i].thought, p)

GoalField(i) == Get(stdin[i].value, "goal", Absent)
\* the goal is absent, empty or whitespace only
GoalMissing(i) == GoalField(i) = Absent \/ (Tag(GoalField(i)) = "str" /\ AllSpace(Val(GoalField(i))))
\* the goal is a text that is not empty after trimming
GoalGiven(i) == GoalField(i) # Absent /\ Tag(GoalField(i)) = "str" /\ ~AllSpace(Val(GoalField(i)))

-----------------------------------------------------------------------------
(* C1: a request whose goal is absent, empty or whitespace only ends with  *)
(* the MissingGoal error response and never with a thought/reply pair,     *)
(* whatever chain_action, address, history and knowledge are.              *)
C1_MissingGoal ==
    \A i \in Invocations :
        IsRequest(i) /\ GoalMissing(i) =>
            /\ pc[i] \in {"start", "loaded", "fields", "done"}
            /\ out[i].kind # "result"
            /\ Done(i) => out[i] = ErrorResponse(MissingGoalMessage)

C1_Witness ==
    \E i \in Invocations :
        /\ IsRequest(i) /\ Done(i)
        /\ GoalMissing(i) /\ GoalField(i) # Absent /\ Val(GoalField(i)) # <<>>
        /\ Get(stdin[i].value, "history", Absent) \notin {Absent, JList(<<>>)}
        /\ out[i] = ErrorResponse(MissingGoalMessage)

(* C2: every request whose goal is non-empty after trimming ends with a    *)
(* Result, whatever the optional fields hold.                              *)
C2_AlwaysResult ==
    \A i \in Invocations : IsRequest(i) /\ GoalGiven(i) /\ Done(i) => out[i].kind = "result"

(* C3: input that is not JSON, or JSON that is not an object, ends with    *)
(* the MalformedInput error response (which differs from MissingGoal) and  *)
(* without build_reply being reached.                                      *)
C3_MalformedInput ==
    \A i \in Invocations :
        ~IsRequest(i) =>
            /\ pc[i] \in {"start", "loaded", "done"}
            /\ MalformedInputMessage # MissingGoalMessage
            /\ Done(i) => out[i] = ErrorResponse(MalformedInputMessage)

(* C4: with goal, chain_action, address, the other list and the clock the  *)
(* same, a request whose history is not a list, or a list of non-records   *)
(* only, gives the output of the same request with history = [], with no   *)
(* history header and no history clause; the same for knowledge.           *)
Malformed(value) ==
    \/ value # Absent /\ ~IsList(value)
    \/ IsList(value) /\ Val(value) # <<>> /\ \A k \in 1..Len(Val(value)) : ~IsDict(Val(value)[k])

SameBut(i, j, key) ==
    /\ IsRequest(i) /\ IsRequest(j) /\ Done(i) /\ Done(j) /\ now[i] = now[j]
    /\ \A f \in {"goal", "chain_action", "address", "history", "knowledge"} \ {key} :
            Get(stdin[i].value, f, Absent) = Get(stdin[j].value, f, Absent)
    /\ Malformed(Get(stdin[i].value, key, Absent))
    /\ Get(stdin[j].value, key, Absent) = JList(<<>>)

C4_MalformedOptional ==
    \A i, j \in Invocations :
        /\ SameBut(i, j, "history") =>
              /\ out[i] = out[j]
              /\ IsResult(i) =>
                    /\ ~Contains(out[i].thought, LitHistoryHeader)
                    /\ ~Contains(out[i].reply, LitHistoryOpen)
                    /\ ~Contains(out[i].reply, LitHistoryGeneric)
        /\ SameBut(i, j, "knowledge") =>
              /\ out[i] = out[j]
              /\ IsResult(i) =>
                    /\ ~Contains(out[i].thought, LitKnowledgeHeader)
                    /\ ~Contains(out[i].reply, LitKnowledgeOpen)
                    /\ ~Contains(out[i].reply, LitKnowledgeGeneric)

C4_Witness ==
    \E i, j \in Invocations :
        /\ SameBut(i, j, "history") /\ IsResult(i) /\ IsResult(j)
        /\ Get(stdin[i].value, "history", Absent) = JList(<<JInt(0, 1), JStr(<<"x">>)>>)
        /\ Get(stdin[i].value, "knowledge", Absent) = JList(<<kA>>)

(* C5: the history section of the thought holds min(3, n) entry lines for  *)
(* the n records considered: the first min(3, n) of them, in the order     *)
(* given, numbered 1..min(3, n); likewise the knowledge section.           *)
C5_Bounding ==
    \A i \in Invocations :
        IsResult(i) =>
            /\ Cardinality(HistoryEntries(i)) = Min(3, Len(history[i]))
            /\ \A k \in 1..Cardinality(HistoryEntries(i)) :
                  LET p == Nth(HistoryEntries(i), k)
                  IN  /\ EntryIndex(i, p) = Decimal(k)
                      /\ RenderedGoal(i, p) = Str(Get(history[i][k], "goal", JStr(LitUnknownGoal)))
            /\ Cardinality(KnowledgeEntries(i)) = Min(3, Len(knowledge[i]))
            /\ \A k \in 1..Cardinality(KnowledgeEntries(i)) :
                  LET p == Nth(KnowledgeEntries(i), k)
                      title == Str(Get(knowledge[i][k], "title", JStr(LitKnowledgePoint)))
                  IN  /\ EntryIndex(i, p) = Decimal(k)
                      /\ RenderedTitle(i, p) = IF title = <<>> THEN LitKnowledgePoint ELSE title

C5_Witness ==
    \E i \in Invocations :
        /\ IsResult(i)
        /\ Len(history[i]) > 3
        /\ history[i][1] # history[i][2]
        /\ Cardinality(HistoryEntries(i)) = 3

(* C6 as claimed: a summary source longer than 60 characters is rendered   *)
(* ending with the marker, at most 60 plus the marker long; one of 60 or   *)
(* fewer is rendered unchanged; knowledge content likewise at 80.          *)
TruncatedAt(src, rendered, limit) ==
    Len(src) > limit => EndsWith(rendered, Ellipsis) /\ Len(rendered) <= limit + Len(Ellipsis)

EntriesRendered(i, Law(_, _, _)) ==
    /\ \A k \in 1..Cardinality(HistoryEntries(i)) :
          Law(HistorySummarySource(history[i][k]),
              RenderedSummary(i, Nth(HistoryEntries(i), k)), SummaryMax)
    /\ \A k \in 1..Cardinality(KnowledgeEntries(i)) :
          Law(Str(Get(knowledge[i][k], "content", JStr(<<>>))),
              RenderedContent(i, Nth(KnowledgeEntries(i), k)), ContentMax)

ClaimedLaw(src, rendered, limit) ==
    /\ TruncatedAt(src, rendered, limit)
    /\ Len(src) <= limit => rendered = src

C6_TruncationAsClaimed ==
    \A i \in Invocations : IsResult(i) => EntriesRendered(i, ClaimedLaw)

(* C6 amended: as claimed for a source longer than the limit and for one   *)
(* of 1 to 60 (80) characters; an empty source is rendered as the "no      *)
(* summary" ("no detail") placeholder.                                     *)
AmendedLaw(src, rendered, limit) ==
    /\ TruncatedAt(src, rendered, limit)
    /\ Len(src) \in 1..limit => rendered = src
    /\ Len(src) = 0 => rendered = (IF limit = SummaryMax THEN LitNoSummary ELSE LitNoDetail)

C6_Truncation ==
    \A i \in Invocations : IsResult(i) => EntriesRendered(i, AmendedLaw)

C6_Witness ==
    \E i \in Invocations :
        /\ IsResult(i)
        /\ Cardinality(HistoryEntries(i)) = 1
        /\ Len(HistorySummarySource(history[i][1])) = SummaryMax
        /\ RenderedSummary(i, Nth(HistoryEntries(i), 1)) = HistorySummarySource(history[i][1])

(* C7: for a goal that is non-empty after trimming, with action, address,  *)
(* history and knowledge empty, the thought has exactly 4 lines (goal,     *)
(* action, address, timestamp) and the reply holds the goal text and the   *)
(* placeholders for action and address.                                    *)
C7_FourLines ==
    \A i \in Invocations :
        /\ IsRequest(i) /\ GoalGiven(i) /\ Done(i)
        /\ action[i] = <<>> /\ address[i] = <<>> /\ history[i] = <<>> /\ knowledge[i] = <<>>
        => /\ out[i].kind = "result"
           /\ LineCount(out[i].thought) = 4
           /\ out[i].thought[1] = Tok(LitCurrentGoal)
           /\ Contains(out[i].thought, <<"\n">> \o LitExpectedAction \o LitUnspecified
                                       \o <<"\n">> \o LitInvolvedAddress \o LitUnspecified
                                       \o <<"\n">> \o LitTimestamp)
           /\ Contains(out[i].reply, Strip(Val(GoalField(i))))
           /\ Contains(out[i].reply, LitSupplyAction)
           /\ Contains(out[i].reply, LitToBeDetermined)

ClaimedTimestamp(item) ==
    LET c == Get(item, "created_at", Absent)
    IN  IF c = Absent THEN LitUnknownTime
        ELSE IF Tag(c) \in {"int", "float"} THEN FormatUTC(IntOf(c))
        ELSE IF Tag(c) = "str" /\ Val(c) # <<>> THEN Val(c)
        ELSE LitUnknownTime

C9_TimestampByType ==
    \A i \in Invocations :
        IsResult(i) =>
            \A k \in 1..Cardinality(HistoryEntries(i)) :
                RenderedTimestamp(i, Nth(HistoryEntries(i), k)) = ClaimedTimestamp(history[i][k])

(* C10 as claimed: the reply has a history clause exactly when the         *)
(* normalised history is non-empty; the clause follows the base sentences  *)
(* and precedes any knowledge clause; it quotes the trimmed goal of the    *)
(* first record, and is the generic phrase when that goal is missing or    *)
(* empty after trimming.                                                   *)
HasHistoryClause(i) ==
    Contains(out[i].reply, LitHistoryOpen) \/ Contains(out[i].reply, LitHistoryGeneric)

Quoting(title) == LitHistoryOpen \o title \o LitHistoryClose

\* the history clause stands right after the base sentences, and every
\* fragment of a knowledge clause after it
ClauseInPlace(i, clause) ==
    LET reply == out[i].reply
        base == SetMin(Positions(reply, Tok(LitReplySafe)))
    IN  /\ SubSeq(reply, base + 1, base + Len(clause)) = clause
        /\ \A q \in Positions(reply, Tok(LitKnowledgeOpen)) \cup Positions(reply, Tok(LitKnowledgeGeneric)) :
              q > base + Len(clause)

HistoryClauseLaw(i, ClauseFor(_)) ==
    /\ HasHistoryClause(i) <=> history[i] # <<>>
    /\ history[i] # <<>> => ClauseInPlace(i, ClauseFor(Get(history[i][1], "goal", Absent)))

ClaimedClause(g) ==
    IF g = Absent \/ Strip(Str(IF g = Absent THEN JNull ELSE g)) = <<>>
    THEN LitHistoryGeneric
    ELSE Quoting(Strip(Str(g)))

C10_HistoryClauseAsClaimed ==
    \A i \in Invocations : IsResult(i) => HistoryClauseLaw(i, ClaimedClause)

(* C10 amended: as claimed, except that for a first record with no goal    *)
(* key the clause quotes the default title "recent tasks"; the generic     *)
(* phrase is used when the goal is present and empty after trimming.       *)
AmendedClause(g) ==
    IF g = Absent THEN Quoting(LitRecentTasks)
    ELSE IF Strip(Str(g)) = <<>> THEN LitHistoryGeneric
    ELSE Quoting(Strip(Str(g)))

C10_HistoryClause ==
    \A i \in Invocations : IsResult(i) => HistoryClauseLaw(i, AmendedClause)

C10_Witness ==
    \E i \in Invocations :
        /\ IsResult(i)
        /\ Len(history[i]) = 2
        /\ "goal" \in DOMAIN Val(history[i][1])
        /\ Str(Val(history[i][1])["goal"]) # <<>>
        /\ Strip(Str(Val(history[i][1])["goal"])) = <<>>
        /\ Contains(out[i].reply, LitHistoryGeneric)

====
